---- MODULE Spec2Model ----
(***************************************************************************)
(* A model of @moltbook/comments: the tree and ranking utilities           *)
(* (utils.js, src/unnamed/part_000 lines 1-196), the in-memory adapter     *)
(* (memoryAdapter.js, src/unnamed/part_000 lines 198-324) and the engine   *)
(* (src/src/CommentSystem.js).                                             *)
(*                                                                         *)
(* Comment ids are the naturals 1, 2, ... (the adapter's "comment_<n>");   *)
(* NULL (0) is a null/absent id, which JavaScript treats as falsy.         *)
(* Records use the joined-word field names (parentId, createdAt), the      *)
(* convention of every record the engine and the reference adapter build.  *)
(***************************************************************************)
EXTENDS Integers, Sequences, FiniteSets, TLC

VARIABLES
    comments,    \* the adapter's Map: comment id -> stored record
    idCounter,   \* the adapter's idCounter
    last,        \* the outcome of the last engine call
    input,       \* the argument of the utility function under check
    output,      \* what the utility function returned
    pc           \* which step of a utility check has run ("engine" for the engine)

engineVars == <<comments, idCounter, last>>

utilVars == <<input, output, pc>>

vars == <<comments, idCounter, last, input, output, pc>>

NULL == 0

-----------------------------------------------------------------------------
(* Bounds of the utility checks *)

MaxId == 3        \* ids of the flat collections handed to buildTree
MaxLen == 3       \* length of the flat collections handed to buildTree

-----------------------------------------------------------------------------
(* Generic helpers *)

\* Map.prototype.set
MapSet(map, k, v) == [x \in (DOMAIN map) \cup {k} |-> IF x = k THEN v ELSE map[x]]

EmptyMap == [x \in {} |-> NULL]

\* All sequences over S of length at most n
SeqsUpTo(S, n) == UNION {[1..k -> S] : k \in 0..n}

\* The ids of a sequence of records, in order
IdsOf(cs) == [i \in 1..Len(cs) |-> cs[i].id]

-----------------------------------------------------------------------------
(* utils.js: buildTree, flattenTree, countComments                         *)
(*                                                                         *)
(* A tree is the object graph buildTree leaves behind: `nodes` maps an id  *)
(* to the node object commentMap holds for it (the comment's fields plus   *)
(* replies), `roots` is the returned array; arrays of nodes hold           *)
(* references, written here as the node's key in commentMap.               *)

\* {...comment, replies: []}
NewNode(comment) == [replies |-> <<>>] @@ comment

\* First pass: create map with replies array
RECURSIVE FirstPass(_, _, _)
FirstPass(cs, i, commentMap) ==
    IF i > Len(cs) THEN commentMap
    ELSE FirstPass(cs, i + 1, MapSet(commentMap, cs[i].id, NewNode(cs[i])))

\* replies.push(node) / rootComments.push(node)
PushFront(arr, node) == <<node>> \o arr
Push(arr, node) == Append(arr, node)

\* Is the comment attached to a parent node (rather than made a root)?
AlwaysRoot(parentId, commentMap) == FALSE
HasParentNode(parentId, commentMap) ==
    parentId # NULL /\ parentId \in DOMAIN commentMap

\* Second pass: build tree structure
RECURSIVE SecondPassRootsToo(_, _, _)
SecondPassRootsToo(cs, i, t) ==
    IF i > Len(cs) THEN t
    ELSE LET node == cs[i].id
             parentId == cs[i].parentId
         IN IF HasParentNode(parentId, t.nodes)
            THEN SecondPassRootsToo(cs, i + 1,
                    [t EXCEPT !.nodes[parentId].replies = Push(@, node),
                              !.roots = Push(@, node)])
            ELSE SecondPassRootsToo(cs, i + 1, [t EXCEPT !.roots = Push(@, node)])

RECURSIVE SecondPass(_, _, _)
SecondPass(cs, i, t) ==
    IF i > Len(cs) THEN t
    ELSE LET node == cs[i].id
             parentId == cs[i].parentId
         IN IF HasParentNode(parentId, t.nodes)
            THEN SecondPass(cs, i + 1,
                    [t EXCEPT !.nodes[parentId].replies = Push(@, node)])
            ELSE SecondPass(cs, i + 1, [t EXCEPT !.roots = Push(@, node)])

buildTree(cs) ==
    IF Len(cs) = 0 THEN [roots |-> <<>>, nodes |-> EmptyMap]
    ELSE SecondPass(cs, 1, [roots |-> <<>>, nodes |-> FirstPass(cs, 1, EmptyMap)])

\* const { replies, ...comment } = node
WithReplies(node) == node
WithoutReplies(node) == [f \in (DOMAIN node) \ {"replies"} |-> node[f]]

\* The traversal of flattenTree and countComments.  `fuel` is the call
\* stack that is left: a traversal that recurses deeper than there are nodes
\* is in a cycle and ends in a RangeError (threw = TRUE).
RECURSIVE traverse(_, _, _)
traverse(nodes, arr, fuel) ==
    IF arr = <<>> THEN [threw |-> FALSE, out |-> <<>>]
    ELSE IF fuel = 0 THEN [threw |-> TRUE, out |-> <<>>]
    ELSE LET node == nodes[Head(arr)]
             below == traverse(nodes, node.replies, fuel - 1)
             rest == traverse(nodes, Tail(arr), fuel)
         IN IF below.threw \/ rest.threw THEN [threw |-> TRUE, out |-> <<>>]
            ELSE [threw |-> FALSE,
                  out |-> <<WithoutReplies(node)>> \o below.out \o rest.out]

StackDepth(tree) == Cardinality(DOMAIN tree.nodes) + 1

flattenTree(tree) == traverse(tree.nodes, tree.roots, StackDepth(tree))

countComments(tree) ==
    LET t == traverse(tree.nodes, tree.roots, StackDepth(tree))
    IN [threw |-> t.threw, count |-> Len(t.out)]

-----------------------------------------------------------------------------
(* The engine's state when no engine call has been made *)

NoCall == [op |-> "none", err |-> "none", ret |-> NULL, calls |-> <<>>]

EngineIdle ==
    /\ comments = EmptyMap
    /\ idCounter = 0
    /\ last = NoCall

-----------------------------------------------------------------------------
(* TreeSpec: buildTree, flattenTree and countComments on every flat        *)
(* collection of at most MaxLen records with ids and parent ids up to      *)
(* MaxId (duplicates, dangling parents, self-parents and cycles included). *)

TreeRecords == [id : 1..MaxId, parentId : 0..MaxId]

TreeInit ==
    /\ EngineIdle
    /\ input \in SeqsUpTo(TreeRecords, MaxLen)
    /\ output = [tree |-> buildTree(<<>>)]
    /\ pc = "start"

BuildTreeStep ==
    /\ pc = "start"
    /\ output' = [tree |-> buildTree(input)]
    /\ pc' = "built"
    /\ UNCHANGED <<engineVars, input>>

FlattenTreeStep ==
    /\ pc = "built"
    /\ output' = [tree |-> output.tree, flat |-> flattenTree(output.tree)]
    /\ pc' = "flattened"
    /\ UNCHANGED <<engineVars, input>>

CountCommentsStep ==
    /\ pc = "built"
    /\ output' = [tree |-> output.tree, count |-> countComments(output.tree)]
    /\ pc' = "counted"
    /\ UNCHANGED <<engineVars, input>>

TreeNext == BuildTreeStep \/ FlattenTreeStep \/ CountCommentsStep

TreeSpec == TreeInit /\ [][TreeNext]_vars

-----------------------------------------------------------------------------
(* What the tree claims speak of *)

Range(seq) == {seq[k] : k \in 1..Len(seq)}

Occurrences(seq, x) == Cardinality({k \in 1..Len(seq) : seq[k] = x})

DistinctIds(cs) == \A i, j \in 1..Len(cs) : cs[i].id = cs[j].id => i = j

InCollection(cs, id) == \E i \in 1..Len(cs) : cs[i].id = id

\* The parent a record is to hang under: NULL when its parent id is null or
\* names no element of the collection
EffectiveParent(cs, c) ==
    IF c.parentId # NULL /\ InCollection(cs, c.parentId) THEN c.parentId ELSE NULL

\* The ids reached from the ids S by following parent pointers inside cs
RECURSIVE ParentClosure(_, _)
ParentClosure(cs, S) ==
    LET up == {EffectiveParent(cs, cs[i]) : i \in {k \in 1..Len(cs) : cs[k].id \in S}}
        S2 == S \cup (up \ {NULL})
    IN IF S2 = S THEN S ELSE ParentClosure(cs, S2)

\* No record is its own ancestor
NoParentCycle(cs) ==
    \A i \in 1..Len(cs) :
        EffectiveParent(cs, cs[i]) = NULL
        \/ cs[i].id \notin ParentClosure(cs, {EffectiveParent(cs, cs[i])})

\* The ids of the nodes reachable from the returned roots
RECURSIVE ReplyClosure(_, _)
ReplyClosure(nodes, S) ==
    LET S2 == S \cup UNION {Range(nodes[n].replies) : n \in S}
    IN IF S2 = S THEN S ELSE ReplyClosure(nodes, S2)

InForest(tree) == ReplyClosure(tree.nodes, Range(tree.roots))

\* Each element sits exactly once in the forest, under the parent the claim names
PlacedOnce(cs, tree) ==
    \A i \in 1..Len(cs) :
        LET c == cs[i]
            p == EffectiveParent(cs, c)
        IN /\ c.id \in DOMAIN tree.nodes
           /\ [f \in DOMAIN c |-> tree.nodes[c.id][f]] = c
           /\ c.id \in InForest(tree)
           /\ Occurrences(tree.roots, c.id) = (IF p = NULL THEN 1 ELSE 0)
           /\ \A q \in DOMAIN tree.nodes :
                 Occurrences(tree.nodes[q].replies, c.id) = (IF q = p THEN 1 ELSE 0)

CountIs(n) == ~output.count.threw /\ output.count.count = n

\* C1 as stated: for EVERY flat collection, whatever its parent pointers,
\* buildTree places each element exactly once in the returned forest (a root
\* when its parent id is null or names no element, else a child of the node
\* with that id) and countComments(buildTree(C)) = |C|.
C1_AnyCollection ==
    pc = "counted" => PlacedOnce(input, output.tree) /\ CountIs(Len(input))

\* C1 (amended): for every flat collection with pairwise distinct ids in which
\* no record is its own ancestor, buildTree places each element exactly once
\* in the returned forest, as a root when its parent id is null or names no
\* element and else as a child of the node with that id, and
\* countComments(buildTree(C)) = |C|.
C1_BuildTreePartition ==
    (pc = "counted" /\ DistinctIds(input) /\ NoParentCycle(input))
        => PlacedOnce(input, output.tree) /\ CountIs(Len(input))

\* A counted three-comment chain (root, child, grandchild)
C1_Witness ==
    /\ pc = "counted"
    /\ DistinctIds(input) /\ NoParentCycle(input)
    /\ Len(input) = 3
    /\ \E i, j \in 1..3 :
          /\ EffectiveParent(input, input[i]) = input[j].id
          /\ EffectiveParent(input, input[j]) # NULL
    /\ CountIs(3)

\* The sub-sequence of cs hanging under p (p = NULL: the roots), as ids
ChildrenInOrder(cs, p) ==
    LET Under(c) == EffectiveParent(cs, c) = p
    IN IdsOf(SelectSeq(cs, Under))

\* C2: sibling order.  The replies of every node are the ids of the input
\* records naming it as parent, in input order, and the roots are the records
\* with a null or absent parent, in input order: buildTree reorders nothing.
C2_SiblingOrder ==
    pc = "built" =>
        /\ output.tree.roots = ChildrenInOrder(input, NULL)
        /\ \A p \in DOMAIN output.tree.nodes :
              output.tree.nodes[p].replies = ChildrenInOrder(input, p)

\* Two children of one parent, given in descending id order, kept in that order
C2_Witness ==
    /\ pc = "built"
    /\ DistinctIds(input)
    /\ \E p \in DOMAIN output.tree.nodes :
          LET r == output.tree.nodes[p].replies
          IN Len(r) = 2 /\ r[1] > r[2] /\ r = ChildrenInOrder(input, p)

PositionIn(cs, c) == CHOOSE i \in 1..Len(cs) : cs[i] = c

\* flat holds exactly the elements of cs, parents first, siblings in cs's order
FlattensTo(cs, flat) ==
    /\ ~flat.threw
    /\ Len(flat.out) = Len(cs)
    /\ \A i \in 1..Len(cs) : Occurrences(flat.out, cs[i]) = 1
    /\ \A k \in 1..Len(flat.out) : "replies" \notin DOMAIN flat.out[k]
    /\ \A k, m \in 1..Len(flat.out) :
          /\ flat.out[k].parentId = flat.out[m].id => m < k
          /\ (k < m /\ Range(flat.out) \subseteq Range(cs)
                    /\ EffectiveParent(cs, flat.out[k]) = EffectiveParent(cs, flat.out[m]))
                => PositionIn(cs, flat.out[k]) < PositionIn(cs, flat.out[m])

\* C3 as stated: for EVERY flat collection X, flattenTree(buildTree(X)) holds
\* exactly the elements of X, each once and without replies, parents before
\* descendants and siblings in X's order.
C3_AnyCollection == pc = "flattened" => FlattensTo(input, output.flat)

\* C3 (amended): for every flat collection X with pairwise distinct ids in
\* which no record is its own ancestor, flattenTree(buildTree(X)) holds
\* exactly the elements of X, each exactly once and without a replies field,
\* every parent before its descendants and siblings in the same relative
\* order as in X; its length is |X|.
C3_FlattenAfterBuild ==
    (pc = "flattened" /\ DistinctIds(input) /\ NoParentCycle(input))
        => FlattensTo(input, output.flat)

\* A three-element collection given child-first, which flattening reorders
C3_Witness ==
    /\ pc = "flattened"
    /\ DistinctIds(input) /\ NoParentCycle(input)
    /\ Len(input) = 3
    /\ EffectiveParent(input, input[1]) # NULL
    /\ ~output.flat.threw
    /\ output.flat.out # input

\* The arrays a node can sit in: the returned roots and the replies of the
\* nodes reachable from them
TimesHeld(tree, id) ==
    LET Held(n) == Occurrences(tree.nodes[n].replies, id)
        RECURSIVE Sum(_)
        Sum(S) == IF S = {} THEN 0
                  ELSE LET n == CHOOSE x \in S : TRUE IN Held(n) + Sum(S \ {n})
    IN Occurrences(tree.roots, id) + Sum(InForest(tree))

\* Every node reachable from the roots sits in exactly one array, once: the
\* reachable nodes form a forest (a cycle among them would need a node held
\* twice, or one not reachable from a root)
IsForest(tree) == \A id \in InForest(tree) : TimesHeld(tree, id) = 1

\* C28: for every input collection with pairwise distinct ids, self-parents
\* and parent cycles included, the nodes reachable from the roots buildTree
\* returns form a finite acyclic forest, so that flattenTree and countComments
\* of buildTree's output terminate, having visited each reachable node once.
C28_TraversalTerminates ==
    DistinctIds(input) =>
        /\ pc # "start" => IsForest(output.tree)
        /\ pc = "flattened" =>
              /\ ~output.flat.threw
              /\ Len(output.flat.out) = Cardinality(InForest(output.tree))
        /\ pc = "counted" =>
              /\ ~output.count.threw
              /\ output.count.count = Cardinality(InForest(output.tree))

\* Counted: a root next to two records that are each other's parent
C28_Witness ==
    /\ pc = "counted"
    /\ DistinctIds(input)
    /\ Len(input) = 3
    /\ \E i, j \in 1..3 :
          /\ i # j
          /\ input[i].parentId = input[j].id
          /\ input[j].parentId = input[i].id
    /\ ~output.count.threw
    /\ output.count.count = 1

-----------------------------------------------------------------------------
(* JavaScript Number arithmetic, as calculateControversy uses it.          *)
(*                                                                         *)
(* A Number >= 0 is an IEEE-754 double: Zero, or [m, e] with m the 53      *)
(* significand bits (most significant first, m[1] = 1) and e the exponent  *)
(* of the last bit, so that the value is m * 2^e.  Every operation         *)
(* computes the exact result and rounds it to nearest, ties to even.       *)

MantissaBits == 53

Zero == [m |-> <<>>, e |-> 0]

Zeros(n) == [i \in 1..n |-> 0]

\* The binary digits of a natural n > 0, most significant first
RECURSIVE NatBits(_)
NatBits(n) == IF n = 0 THEN <<>> ELSE Append(NatBits(n \div 2), n % 2)

\* The w low binary digits of a natural n, most significant first
BitsOf(n, w) == [i \in 1..w |-> (n \div 2^(w - i)) % 2]

\* The natural a bit string of at most 24 bits stands for
RECURSIVE BitsValue(_)
BitsValue(bits) ==
    LET n == Len(bits)
        h == n \div 2
    IN IF n = 0 THEN 0
       ELSE IF n = 1 THEN bits[1]
       ELSE BitsValue(SubSeq(bits, 1, h)) * 2^(n - h) + BitsValue(SubSeq(bits, h + 1, n))

StripZeros(bits) ==
    LET ones == {i \in 1..Len(bits) : bits[i] = 1}
    IN IF ones = {} THEN <<>>
       ELSE SubSeq(bits, CHOOSE i \in ones : \A j \in ones : i <= j, Len(bits))

\* bits + 1, one digit longer when every bit was 1
Increment(bits) ==
    LET n == Len(bits)
        zeros == {i \in 1..n : bits[i] = 0}
    IN IF zeros = {} THEN <<1>> \o Zeros(n)
       ELSE LET z == CHOOSE i \in zeros : \A j \in zeros : j <= i
            IN SubSeq(bits, 1, z - 1) \o <<1>> \o Zeros(n - z)

\* The double nearest to bits * 2^e (bits without leading zeros, not empty),
\* `sticky` saying that the exact value lies strictly above bits * 2^e
\* (by less than 2^e).  Ties go to the even significand.
RoundToDouble(bits, e, sticky) ==
    LET n == Len(bits)
    IN IF n <= MantissaBits
       THEN [m |-> bits \o Zeros(MantissaBits - n), e |-> e - (MantissaBits - n)]
       ELSE LET keep == SubSeq(bits, 1, MantissaBits)
                guard == bits[MantissaBits + 1]
                below == sticky \/ \E i \in (MantissaBits + 2)..n : bits[i] = 1
                up == guard = 1 /\ (below \/ keep[MantissaBits] = 1)
                e2 == e + (n - MantissaBits)
                inc == Increment(keep)
            IN IF ~up THEN [m |-> keep, e |-> e2]
               ELSE IF Len(inc) = MantissaBits THEN [m |-> inc, e |-> e2]
               ELSE [m |-> SubSeq(inc, 1, MantissaBits), e |-> e2 + 1]

\* A natural as a Number (exact for every natural below 2^53)
FromNat(n) == IF n = 0 THEN Zero ELSE RoundToDouble(NatBits(n), 0, FALSE)

\* The sign of x - y
CompareNumbers(x, y) ==
    IF x.m = <<>> \/ y.m = <<>>
    THEN (IF x.m # <<>> THEN 1 ELSE IF y.m # <<>> THEN -1 ELSE 0)
    ELSE IF x.e # y.e THEN (IF x.e > y.e THEN 1 ELSE -1)
    ELSE LET diff == {i \in 1..MantissaBits : x.m[i] # y.m[i]}
         IN IF diff = {} THEN 0
            ELSE LET i == CHOOSE k \in diff : \A j \in diff : k <= j
                 IN IF x.m[i] > y.m[i] THEN 1 ELSE -1

\* Long division of r / t (0 <= r < t < 64), 20 binary places at a time:
\* the next 20 * chunks quotient bits and the remainder left after them
RECURSIVE QuotientBits(_, _, _)
QuotientBits(r, t, chunks) ==
    IF chunks = 0 THEN [bits |-> <<>>, rem |-> r]
    ELSE LET num == r * 2^20
             rest == QuotientBits(num % t, t, chunks - 1)
         IN [bits |-> BitsOf(num \div t, 20) \o rest.bits, rem |-> rest.rem]

\* a / t for naturals 0 <= a <= t, 0 < t < 64
DivideNat(a, t) ==
    IF a = 0 THEN Zero
    ELSE IF a = t THEN FromNat(1)
    ELSE LET s == CHOOSE k \in 1..6 : a * 2^k >= t /\ a * 2^(k - 1) < t
             q == QuotientBits(a * 2^(s - 1), t, 3)
         IN RoundToDouble(q.bits, -(s - 1) - 60, q.rem # 0)

\* 1 - q for a Number 0 <= q <= 1: the exact difference is 2^k - m in units
\* of 2^e (k = -e), the two's complement of m in k bits
OneMinus(q) ==
    IF q.m = <<>> THEN FromNat(1)
    ELSE IF q = FromNat(1) THEN Zero
    ELSE LET k == -q.e
             padded == Zeros(k - MantissaBits) \o q.m
             flipped == [i \in 1..k |-> 1 - padded[i]]
             diff == StripZeros(SubSeq(Increment(<<0>> \o flipped), 2, k + 1))
         IN RoundToDouble(diff, q.e, FALSE)

\* bits * t + carry for a natural t < 64, 24 bits at a time from the low end
RECURSIVE TimesSmall(_, _, _)
TimesSmall(bits, t, carry) ==
    IF bits = <<>> THEN NatBits(carry)
    ELSE LET n == Len(bits)
             w == IF n < 24 THEN n ELSE 24
             v == BitsValue(SubSeq(bits, n - w + 1, n)) * t + carry
         IN TimesSmall(SubSeq(bits, 1, n - w), t, v \div 2^w) \o BitsOf(v % 2^w, w)

\* t * x for a natural 0 < t < 64
TimesNat(t, x) ==
    IF x.m = <<>> THEN Zero
    ELSE RoundToDouble(StripZeros(TimesSmall(x.m, t, 0)), x.e, FALSE)

Abs(n) == IF n < 0 THEN -n ELSE n

-----------------------------------------------------------------------------
(* utils.js: calculateControversy *)

calculateControversy(comment) ==
    LET upvotes == comment.upvotes
        downvotes == comment.downvotes
        total == upvotes + downvotes
    IN IF total = 0 THEN Zero
       ELSE LET balance == OneMinus(DivideNat(Abs(upvotes - downvotes), total))
            IN TimesNat(total, balance)

-----------------------------------------------------------------------------
(* utils.js: sortComments *)

\* The sort argument of a call that passes none
Omitted == "<omitted>"

\* new Date(a.createdAt).getTime(): createdAt is held as that number
getTime(comment) == comment.createdAt

Sign(n) == IF n > 0 THEN 1 ELSE IF n < 0 THEN -1 ELSE 0

\* The comparators, as the sign of what the arrow functions return
compareNew(a, b) == Sign(getTime(b) - getTime(a))

compareOld(a, b) == Sign(getTime(a) - getTime(b))

compareControversial(a, b) ==
    LET aScore == calculateControversy(a)
        bScore == calculateControversy(b)
    IN CompareNumbers(bScore, aScore)

compareScoreOnly(a, b) == Sign(b.score - a.score)
compareTop(a, b) ==
    LET aScore == a.score
        bScore == b.score
    IN IF bScore # aScore THEN Sign(bScore - aScore)
       ELSE Sign(getTime(b) - getTime(a))

\* switch (sort), with 'top' the default parameter value and the default case
compare(sort, a, b) ==
    LET policy == IF sort = Omitted THEN "top" ELSE sort
    IN CASE policy = "new" -> compareNew(a, b)
         [] policy = "old" -> compareOld(a, b)
         [] policy = "controversial" -> compareControversial(a, b)
         [] OTHER -> compareTop(a, b)

\* Array.prototype.sort is stable: x goes before the first element it is
\* strictly before, and behind everything it ties with
RECURSIVE InsertStable(_, _, _)
InsertStable(sorted, x, sort) ==
    IF sorted = <<>> THEN <<x>>
    ELSE IF compare(sort, x, Head(sorted)) < 0 THEN <<x>> \o sorted
    ELSE <<Head(sorted)>> \o InsertStable(Tail(sorted), x, sort)

RECURSIVE SortFrom(_, _, _, _)
SortFrom(cs, i, sorted, sort) ==
    IF i > Len(cs) THEN sorted
    ELSE SortFrom(cs, i + 1, InsertStable(sorted, cs[i], sort), sort)

sortComments(cs, sort) == SortFrom(cs, 1, <<>>, sort)

-----------------------------------------------------------------------------
(* SortSpec: sortComments on every collection of at most MaxSortLen        *)
(* records, under each policy name, an unknown one and none.               *)

MaxSortLen == 3

SortScores == {-1, 1}
SortTimes == {1, 2}
SortVotes == {<<0, 0>>, <<1, 8>>, <<1, 9>>}
SortPolicies == {"top", "new", "old", "controversial", "hot", Omitted}

SortKeys == [score : SortScores, createdAt : SortTimes, votes : SortVotes]

\* The i-th record of a collection, its id its place
SortRecord(i, k) ==
    [id |-> i, score |-> k.score, createdAt |-> k.createdAt,
     upvotes |-> k.votes[1], downvotes |-> k.votes[2]]

SortInit ==
    /\ EngineIdle
    /\ \E ks \in SeqsUpTo(SortKeys, MaxSortLen), sort \in SortPolicies :
          input = [comments |-> [i \in 1..Len(ks) |-> SortRecord(i, ks[i])],
                   sort |-> sort]
    /\ output = <<>>
    /\ pc = "start"

SortStep ==
    /\ pc = "start"
    /\ output' = sortComments(input.comments, input.sort)
    /\ pc' = "sorted"
    /\ UNCHANGED <<engineVars, input>>

SortNext == SortStep

SortSpec == SortInit /\ [][SortNext]_vars

\* The claim's own controversy score: 0 when t = 0, else t - |u - d|
IdealControversy(c) ==
    LET t == c.upvotes + c.downvotes
    IN IF t = 0 THEN 0 ELSE t - Abs(c.upvotes - c.downvotes)

\* a may stand before b under the policy's key
InKeyOrder(policy, a, b) ==
    CASE policy = "new" -> a.createdAt >= b.createdAt
      [] policy = "old" -> a.createdAt <= b.createdAt
      [] policy = "controversial" ->
            /\ IdealControversy(a) >= IdealControversy(b)
            /\ CompareNumbers(calculateControversy(a), calculateControversy(b)) >= 0
      [] policy = "top" ->
            \/ a.score > b.score
            \/ a.score = b.score /\ a.createdAt >= b.createdAt

IsPermutation(s, t) ==
    /\ Len(s) = Len(t)
    /\ \A i \in 1..Len(s) : Occurrences(t, s[i]) = 1

Sorted(policy, s) == \A i, j \in 1..Len(s) : i < j => InKeyOrder(policy, s[i], s[j])

\* C4: sortComments returns a permutation of its input ordered by the
\* policy's key ('new' newest first, 'old' oldest first, 'controversial' by
\* descending controversy, 'top' by descending score and then newest first);
\* an omitted or unrecognized policy orders exactly as 'top'.
C4_SortByPolicy ==
    pc = "sorted" =>
        LET policy == IF input.sort \in {"new", "old", "controversial"}
                      THEN input.sort ELSE "top"
        IN /\ IsPermutation(input.comments, output)
           /\ Sorted(policy, output)
           /\ input.sort \in {"hot", Omitted}
                 => output = sortComments(input.comments, "top")

\* Three comments under no policy name, two of them tied on score and
\* ordered by time, in an order that is not the input's
C4_Witness ==
    /\ pc = "sorted"
    /\ input.sort = Omitted
    /\ Len(output) = 3
    /\ output # input.comments
    /\ output[1].score = output[2].score
    /\ output[1].createdAt > output[2].createdAt
    /\ output[2].score > output[3].score

-----------------------------------------------------------------------------
(* ControversySpec: calculateControversy on every comment with at most     *)
(* MaxVotes upvotes and MaxVotes downvotes.                                *)

MaxVotes == 9

ControversyInit ==
    /\ EngineIdle
    /\ input \in [upvotes : 0..MaxVotes, downvotes : 0..MaxVotes]
    /\ output = Zero
    /\ pc = "start"

ControversyStep ==
    /\ pc = "start"
    /\ output' = calculateControversy(input)
    /\ pc' = "scored"
    /\ UNCHANGED <<engineVars, input>>

ControversyNext == ControversyStep

ControversySpec == ControversyInit /\ [][ControversyNext]_vars

Votes(u, d) == [upvotes |-> u, downvotes |-> d]

\* C5: the controversy score of a comment with u upvotes and d downvotes
\* (t = u + d) is 0 when t = 0 and t - |u - d| otherwise; so one more vote
\* never lowers it, and among the comments with the same total it is largest
\* when u = d; score(10, 1) < score(5, 5).
C5_ControversyValue ==
    pc = "scored" =>
        LET u == input.upvotes
            d == input.downvotes
        IN /\ output = FromNat(IdealControversy(input))
           /\ CompareNumbers(calculateControversy(Votes(u + 1, d)), output) >= 0
           /\ CompareNumbers(calculateControversy(Votes(u, d + 1)), output) >= 0
           /\ u = d => \A k \in 0..(u + d) :
                          CompareNumbers(calculateControversy(Votes(k, u + d - k)), output) <= 0
           /\ CompareNumbers(calculateControversy(Votes(10, 1)),
                             calculateControversy(Votes(5, 5))) < 0

-----------------------------------------------------------------------------
(* Strings.  A string is the sequence of its characters; a value handed in *)
(* as content is undefined, a string, or something that is no string.      *)

Chars == {" ", "a"}

Undefined == [type |-> "undefined", chars |-> <<>>]
NonString == [type |-> "number", chars |-> <<>>]
Str(chars) == [type |-> "string", chars |-> chars]

\* The literal '[deleted]'
DeletedMarker == <<"[", "d", "e", "l", "e", "t", "e", "d", "]">>

\* String.prototype.trim
trim(chars) ==
    LET solid == {i \in 1..Len(chars) : chars[i] # " "}
    IN IF solid = {} THEN <<>>
       ELSE SubSeq(chars, CHOOSE i \in solid : \A j \in solid : i <= j,
                          CHOOSE i \in solid : \A j \in solid : j <= i)

\* !x for a name (postId, authorId), absent as "", and for a comment id,
\* absent as NULL
Absent == ""
Falsy(name) == name = Absent
FalsyId(id) == id = NULL

-----------------------------------------------------------------------------
(* memoryAdapter.js *)

\* What getComment returns for an unknown id (null)
NoRecord == [id |-> NULL]

adapterGetLiveComment(store, id) ==
    IF id \in DOMAIN store /\ "isDeleted" \notin DOMAIN store[id] THEN store[id] ELSE NoRecord
adapterGetComment(store, id) ==
    IF id \in DOMAIN store THEN store[id] ELSE NoRecord

\* saveComment: generateId, then {id, ...comment, createdAt}
adapterSaveOverLatest(store, counter, comment) ==
    LET id == IF counter = 0 THEN 1 ELSE counter
        saved == comment @@ [id |-> id]
    IN [comments |-> MapSet(store, id, saved), idCounter |-> id, saved |-> saved]
adapterSaveComment(store, counter, comment) ==
    LET id == counter + 1
        saved == comment @@ [id |-> id]
    IN [comments |-> MapSet(store, id, saved), idCounter |-> id, saved |-> saved]

adapterRemoveComment(store, id) ==
    [x \in (DOMAIN store) \ {id} |-> store[x]]
adapterDeleteComment(store, id) ==
    IF id \in DOMAIN store
    THEN [store EXCEPT ![id] = [content |-> DeletedMarker, isDeleted |-> TRUE] @@ @]
    ELSE store

adapterSetScore(store, id, delta) ==
    IF id \in DOMAIN store
    THEN [comments |-> [store EXCEPT ![id].score = delta], score |-> delta]
    ELSE [comments |-> store, score |-> 0]
adapterScoreAndRestore(store, id, delta) ==
    IF id \in DOMAIN store
    THEN [comments |-> [store EXCEPT ![id] = [score |-> @.score + delta, isDeleted |-> FALSE] @@ @],
          score |-> store[id].score + delta]
    ELSE [comments |-> store, score |-> 0]
adapterUpdateScore(store, id, delta) ==
    IF id \in DOMAIN store
    THEN [comments |-> [store EXCEPT ![id].score = @ + delta],
          score |-> store[id].score + delta]
    ELSE [comments |-> store, score |-> 0]

\* comments.values(): the records in the order they were set, which is the
\* order of their ids
Values(store) == [i \in 1..Cardinality(DOMAIN store) |-> store[i]]

\* Array.prototype.slice(from, to)
Slice(arr, from, to) ==
    SubSeq(arr, from + 1, IF to < Len(arr) THEN to ELSE Len(arr))

OfAnyPost(cs, postId) == cs
OfPost(cs, postId) == SelectSeq(cs, LAMBDA c : c.postId = postId)
OfParent(cs, parentId) == SelectSeq(cs, LAMBDA c : c.parentId = parentId)

adapterGetComments(store, postId, sort, limit, offset) ==
    Slice(sortComments(OfPost(Values(store), postId), sort), offset, offset + limit)

adapterGetReplies(store, commentId, sort, limit) ==
    Slice(sortComments(OfParent(Values(store), commentId), sort), 0, limit)

adapterGetCount(store, postId) == Len(OfPost(Values(store), postId))

\* comment.isDeleted, undefined on a record that was never deleted
IsDeleted(comment) == "isDeleted" \in DOMAIN comment /\ comment.isDeleted

-----------------------------------------------------------------------------
(* CommentSystem.js *)

\* this.options: maxDepth as the depth test sets it, maxLength kept small
maxDepth == 2
maxLength == 1

\* What a call leaves behind: the error code thrown ("OK" when none), the
\* value returned, the adapter methods invoked in order, and the adapter's
\* state afterwards
Outcome(err, ret, calls, store, counter) ==
    [err |-> err, ret |-> ret, calls |-> calls, comments |-> store, idCounter |-> counter]

Thrown(code, calls, store, counter) == Outcome(code, NoRecord, calls, store, counter)

\* _validateContent: the error it throws or the trimmed content it returns
validateUntrimmed(content) ==
    IF content.type # "string" \/ content.chars = <<>>
    THEN [err |-> "EMPTY_CONTENT", trimmed |-> <<>>]
    ELSE [err |-> "OK", trimmed |-> content.chars]
validateContent(content) ==
    IF content.type # "string" \/ content.chars = <<>>
    THEN [err |-> "EMPTY_CONTENT", trimmed |-> <<>>]
    ELSE LET trimmed == trim(content.chars)
         IN IF Len(trimmed) = 0 THEN [err |-> "EMPTY_CONTENT", trimmed |-> <<>>]
            ELSE IF Len(trimmed) > maxLength THEN [err |-> "MAX_LENGTH", trimmed |-> <<>>]
            ELSE [err |-> "OK", trimmed |-> trimmed]

\* The record create and reply hand to saveComment
NewComment(postId, authorId, content, parentId, depth, now) ==
    [postId |-> postId, authorId |-> authorId, content |-> content,
     parentId |-> parentId, depth |-> depth, score |-> 0,
     upvotes |-> 0, downvotes |-> 0, createdAt |-> now]

\* saveComment, and the saved record returned
SaveUnlessParentDeleted(calls, store, counter, comment) ==
    LET s == adapterSaveComment(store, counter, comment)
    IN IF comment.parentId \in DOMAIN store /\ IsDeleted(store[comment.parentId])
       THEN Thrown("PARENT_NOT_FOUND", calls, store, counter)
       ELSE Outcome("OK", s.saved, Append(calls, "saveComment"), s.comments, s.idCounter)
SaveAndReturn(calls, store, counter, comment) ==
    LET s == adapterSaveComment(store, counter, comment)
    IN Outcome("OK", s.saved, Append(calls, "saveComment"), s.comments, s.idCounter)

create(store, counter, postId, authorId, content, now) ==
    IF Falsy(postId) THEN Thrown("MISSING_POST", <<>>, store, counter)
    ELSE IF Falsy(authorId) THEN Thrown("MISSING_AUTHOR", <<>>, store, counter)
    ELSE LET v == validateContent(content)
         IN IF v.err # "OK" THEN Thrown(v.err, <<>>, store, counter)
            ELSE SaveAndReturn(<<>>, store, counter,
                    NewComment(postId, authorId, v.trimmed, NULL, 0, now))

\* parent.postId !== postId
AnyPost(parent, postId) == FALSE
OtherPost(parent, postId) == parent.postId # postId

\* newDepth > this.options.maxDepth
TooDeepOffByOne(newDepth) == newDepth > maxDepth + 1
TooDeep(newDepth) == newDepth > maxDepth

\* reply, from the parent fetch on
replySaveFirst(store, counter, postId, parentId, authorId, content, now) ==
    LET parent == adapterGetComment(store, parentId)
        v == validateContent(content)
        s == SaveAndReturn(<<"getComment">>, store, counter,
                NewComment(postId, authorId, v.trimmed, parentId, parent.depth + 1, now))
    IN IF parent = NoRecord THEN Thrown("PARENT_NOT_FOUND", <<"getComment">>, store, counter)
       ELSE IF OtherPost(parent, postId)
       THEN Thrown("INVALID_PARENT", <<"getComment">>, store, counter)
       ELSE IF TooDeep(parent.depth + 1)
       THEN Thrown("MAX_DEPTH", <<"getComment">>, store, counter)
       ELSE IF v.err # "OK" THEN Thrown(v.err, s.calls, s.comments, s.idCounter)
       ELSE s
\* reply, resumed with the parent that getComment resolved to
replyAfterFetch(parent, store, counter, postId, parentId, authorId, content, now) ==
    LET calls == <<"getComment">>
    IN IF parent = NoRecord THEN Thrown("PARENT_NOT_FOUND", calls, store, counter)
       ELSE IF OtherPost(parent, postId)
       THEN Thrown("INVALID_PARENT", calls, store, counter)
       ELSE LET parentDepth == parent.depth
                newDepth == parentDepth + 1
            IN IF TooDeep(newDepth) THEN Thrown("MAX_DEPTH", calls, store, counter)
               ELSE LET v == validateContent(content)
                    IN IF v.err # "OK" THEN Thrown(v.err, calls, store, counter)
                       ELSE SaveAndReturn(calls, store, counter,
                               NewComment(postId, authorId, v.trimmed, parentId, newDepth, now))

replyToParent(store, counter, postId, parentId, authorId, content, now) ==
    replyAfterFetch(adapterGetComment(store, parentId),
                    store, counter, postId, parentId, authorId, content, now)

reply(store, counter, postId, parentId, authorId, content, now) ==
    IF Falsy(postId) THEN Thrown("MISSING_POST", <<>>, store, counter)
    ELSE IF FalsyId(parentId) THEN Thrown("MISSING_PARENT", <<>>, store, counter)
    ELSE IF Falsy(authorId) THEN Thrown("MISSING_AUTHOR", <<>>, store, counter)
    ELSE replyToParent(store, counter, postId, parentId, authorId, content, now)

\* authorId !== agentId
AnyAgent(comment, agentId) == FALSE
OtherAuthor(comment, agentId) == comment.authorId # agentId

\* delete, resumed with the comment that getComment resolved to
deleteAfterFetch(comment, store, counter, commentId, agentId) ==
    LET calls == <<"getComment">>
    IN IF comment = NoRecord THEN Thrown("NOT_FOUND", calls, store, counter)
       ELSE IF OtherAuthor(comment, agentId) THEN Thrown("FORBIDDEN", calls, store, counter)
       ELSE Outcome("OK", NoRecord, Append(calls, "deleteComment"),
                    adapterDeleteComment(store, commentId), counter)

delete(store, counter, commentId, agentId) ==
    deleteAfterFetch(adapterGetComment(store, commentId), store, counter, commentId, agentId)

\* updateScore, over an adapter that has the method
updateScore(store, counter, commentId, delta) ==
    LET u == adapterUpdateScore(store, commentId, delta)
    IN Outcome("OK", [score |-> u.score], <<"updateScore">>, u.comments, counter)

\* getThread: the forest buildTree makes of the re-sorted page
resortAndBuild(response, sort) == buildTree(sortComments(response, sort))

getThread(store, postId, sort, limit, offset) ==
    resortAndBuild(adapterGetComments(store, postId, sort, limit, offset), sort)

\* The defaults of getThread's and getComments' options
DefaultLimit == 100

\* What a comment object handed to buildTree is once the first pass has made
\* its node: the node is a copy ({...comment, replies: []}), so the object
\* itself is as it was
NodeInPlace(comment) == NewNode(comment)
SpreadSource(comment) == comment

\* The store after getThread: the in-memory adapter answers getComments with
\* the stored objects themselves, which sortComments copies into a new array
\* and buildTree then goes over
storeAfterGetThread(store, postId, sort, limit, offset) ==
    LET handed == Range(IdsOf(adapterGetComments(store, postId, sort, limit, offset)))
    IN [id \in DOMAIN store |->
           IF id \in handed THEN SpreadSource(store[id]) ELSE store[id]]

-----------------------------------------------------------------------------
(* Spec: one engine over the in-memory adapter, its calls made one after   *)
(* the other.                                                              *)

MaxComments == 3     \* comments saved
MaxScore == 1        \* votes standing, over all comments

Posts == {"post_1", "post_2"}
Authors == {"agent_1"}
Agents == Authors \cup {"agent_2"}
Times == {1}
Deltas == {-1, 1}

\* One content per way through _validateContent: undefined, a non-string,
\* '', blanks only, the longest content allowed with a blank before it, and
\* the shortest content that is too long
Longest == [i \in 1..maxLength |-> "a"]
ContentInputs ==
    {Undefined, NonString, Str(<<>>), Str(<<" ">>),
     Str(<<" ">> \o Longest), Str(Longest \o <<"a">>)}

PostInputs == Posts \cup {Absent}
AuthorInputs == Authors \cup {Absent}
AgentInputs == Agents \cup {Absent}
\* Every id saved so far or to be saved, one that never is, and none
IdInputs == 0..(MaxComments + 1)

\* The votes standing in a store
RECURSIVE SumAbs(_, _)
SumAbs(store, ids) ==
    IF ids = {} THEN 0
    ELSE LET id == CHOOSE x \in ids : TRUE
         IN Abs(store[id].score) + SumAbs(store, ids \ {id})
Standing(store) == SumAbs(store, DOMAIN store)

Init ==
    /\ EngineIdle
    /\ input = <<>>
    /\ output = <<>>
    /\ pc = "engine"

\* What a call leaves in `last`
Left(op, r) == [op |-> op, err |-> r.err, ret |-> r.ret, calls |-> r.calls]

Create ==
    \E postId \in PostInputs, authorId \in AuthorInputs,
       content \in ContentInputs, now \in Times :
        LET r == create(comments, idCounter, postId, authorId, content, now)
        IN /\ r.idCounter <= MaxComments
           /\ comments' = r.comments
           /\ idCounter' = r.idCounter
           /\ last' = Left("create", r)
           /\ UNCHANGED utilVars

Reply ==
    \E postId \in PostInputs, parentId \in IdInputs, authorId \in AuthorInputs,
       content \in ContentInputs, now \in Times :
        LET r == reply(comments, idCounter, postId, parentId, authorId, content, now)
        IN /\ r.idCounter <= MaxComments
           /\ comments' = r.comments
           /\ idCounter' = r.idCounter
           /\ last' = Left("reply", r)
           /\ UNCHANGED utilVars

Delete ==
    \E commentId \in IdInputs, agentId \in AgentInputs :
        LET r == delete(comments, idCounter, commentId, agentId)
        IN /\ comments' = r.comments
           /\ idCounter' = r.idCounter
           /\ last' = Left("delete", r)
           /\ UNCHANGED utilVars

UpdateScore ==
    \E commentId \in IdInputs, delta \in Deltas :
        LET r == updateScore(comments, idCounter, commentId, delta)
        IN /\ Standing(r.comments) <= MaxScore
           /\ comments' = r.comments
           /\ idCounter' = r.idCounter
           /\ last' = Left("updateScore", r)
           /\ UNCHANGED utilVars

Next == Create \/ Reply \/ Delete \/ UpdateScore

Spec == Init /\ [][Next]_vars

-----------------------------------------------------------------------------
(* Claims about create and reply.  A claim about what a call does with its *)
(* arguments is stated of the call made in the state at hand, for every    *)
(* argument.                                                               *)

\* The record saved by a call that left r, when it saved exactly one
SavedOne(r) ==
    /\ r.ret # NoRecord
    /\ r.ret.id \notin DOMAIN comments
    /\ DOMAIN r.comments = DOMAIN comments \cup {r.ret.id}
    /\ \A id \in DOMAIN comments : r.comments[id] = comments[id]
    /\ r.comments[r.ret.id] = r.ret

\* The outcome the contract of create names for these arguments
CreateContract(postId, authorId, content) ==
    IF postId = Absent THEN "MISSING_POST"
    ELSE IF authorId = Absent THEN "MISSING_AUTHOR"
    ELSE IF content.type # "string" \/ trim(content.chars) = <<>> THEN "EMPTY_CONTENT"
    ELSE IF Len(trim(content.chars)) > maxLength THEN "MAX_LENGTH"
    ELSE "OK"

\* C6: create fails with MISSING_POST if postId is absent, else with
\* MISSING_AUTHOR if authorId is absent, else with EMPTY_CONTENT if content
\* is absent, no string or blank, else with MAX_LENGTH if the trimmed content
\* is longer than maxLength; otherwise it saves exactly one comment, with the
\* trimmed content, depth 0, no parent, score and votes 0, and returns the
\* record saved.
C6_CreateContract ==
    \A postId \in PostInputs, authorId \in AgentInputs,
       content \in ContentInputs, now \in Times :
        LET r == create(comments, idCounter, postId, authorId, content, now)
        IN /\ r.err = CreateContract(postId, authorId, content)
           /\ r.err = "OK" =>
                /\ SavedOne(r)
                /\ r.ret.postId = postId
                /\ r.ret.authorId = authorId
                /\ r.ret.content = trim(content.chars)
                /\ r.ret.depth = 0
                /\ r.ret.parentId = NULL
                /\ r.ret.score = 0
                /\ r.ret.upvotes = 0
                /\ r.ret.downvotes = 0

\* A create has saved a root whose content came in with a blank before it,
\* and another has been turned down
C6_Witness ==
    /\ last.op = "create"
    /\ last.err = "MAX_LENGTH"
    /\ \E id \in DOMAIN comments :
        /\ comments[id].depth = 0
        /\ comments[id].content = Longest

\* The replies between a comment and its root
RECURSIVE ChainLength(_, _, _)
ChainLength(store, id, fuel) ==
    IF fuel = 0 \/ id \notin DOMAIN store \/ store[id].parentId = NULL THEN 0
    ELSE 1 + ChainLength(store, store[id].parentId, fuel - 1)

DepthInvariant ==
    \A id \in DOMAIN comments :
        LET c == comments[id]
        IN /\ c.depth = 0 <=> c.parentId = NULL
           /\ c.parentId # NULL =>
                /\ c.parentId \in DOMAIN comments
                /\ c.depth = comments[c.parentId].depth + 1
           /\ c.depth <= maxDepth
           /\ c.depth = ChainLength(comments, id, MaxComments)

\* Content that _validateContent lets through
Acceptable(content) ==
    /\ content.type = "string"
    /\ trim(content.chars) # <<>>
    /\ Len(trim(content.chars)) <= maxLength

\* C7: in every state reached by create, reply, delete and updateScore
\* calls, a stored comment has depth 0 exactly when it has no parent, a
\* reply has its parent's depth plus one, no depth exceeds maxDepth and the
\* n-th reply of a chain has depth n; a reply to a stored comment of the
\* same post fails with MAX_DEPTH when its depth would exceed maxDepth, and
\* otherwise passes the depth check and, its content acceptable, is saved
\* at that depth.
C7_DepthInvariant ==
    /\ DepthInvariant
    /\ \A postId \in Posts, parentId \in DOMAIN comments, authorId \in Agents,
          content \in ContentInputs, now \in Times :
        comments[parentId].postId = postId =>
            LET r == reply(comments, idCounter, postId, parentId, authorId, content, now)
                newDepth == comments[parentId].depth + 1
            IN IF newDepth > maxDepth THEN r.err = "MAX_DEPTH"
               ELSE /\ r.err # "MAX_DEPTH"
                    /\ Acceptable(content) =>
                        /\ r.err = "OK"
                        /\ SavedOne(r)
                        /\ r.ret.parentId = parentId
                        /\ r.ret.depth = newDepth

\* A chain has grown to maxDepth and the reply to its end was turned down
C7_Witness ==
    /\ last.op = "reply"
    /\ last.err = "MAX_DEPTH"
    /\ \E id \in DOMAIN comments :
        /\ comments[id].depth = maxDepth
        /\ ChainLength(comments, id, MaxComments) = maxDepth

\* C8: a reply that names a post, a parent and an author fails with
\* PARENT_NOT_FOUND when no stored comment has the parent's id and with
\* INVALID_PARENT when the parent is stored under another post; so in every
\* state each reply's parent is a stored comment of the same post.
C8_ParentLinkage ==
    /\ \A postId \in Posts, parentId \in IdInputs \ {NULL}, authorId \in Agents,
          content \in ContentInputs, now \in Times :
        LET r == reply(comments, idCounter, postId, parentId, authorId, content, now)
        IN /\ parentId \notin DOMAIN comments => r.err = "PARENT_NOT_FOUND"
           /\ (parentId \in DOMAIN comments /\ comments[parentId].postId # postId)
                => r.err = "INVALID_PARENT"
    /\ \A id \in DOMAIN comments :
        comments[id].parentId # NULL =>
            /\ comments[id].parentId \in DOMAIN comments
            /\ comments[comments[id].parentId].postId = comments[id].postId

\* A reply is stored, and a reply under another post than its parent's was
\* turned down
C8_Witness ==
    /\ last.op = "reply"
    /\ last.err = "INVALID_PARENT"
    /\ \E id \in DOMAIN comments : comments[id].parentId # NULL

ValidationCodes ==
    {"MISSING_POST", "MISSING_AUTHOR", "MISSING_PARENT", "EMPTY_CONTENT",
     "MAX_LENGTH", "MAX_DEPTH", "INVALID_PARENT"}

\* C9: a create or reply call that fails with a validation error saves no
\* comment and leaves every stored record as it was.
C9_NoMutationOnValidationError ==
    [][(last'.op \in {"create", "reply"} /\ last'.err \in ValidationCodes) =>
            /\ comments' = comments
            /\ idCounter' = idCounter
            /\ \A i \in DOMAIN last'.calls : last'.calls[i] = "getComment"]_vars

\* A reply was turned down for its content with comments in the store
C9_Witness ==
    /\ last.op = "reply"
    /\ last.err = "MAX_LENGTH"
    /\ idCounter = MaxComments
    /\ DOMAIN comments = 1..MaxComments

\* C10: a reply that names a post, a parent and an author and whose content
\* is absent, blank or longer than maxLength fails with the code create
\* gives that content, whatever parent it names, and with no adapter method
\* called, the parent fetch included.
C10_ContentBeforeStorage ==
    \A postId \in Posts, parentId \in IdInputs \ {NULL}, authorId \in Agents,
       content \in ContentInputs, now \in Times :
        LET r == reply(comments, idCounter, postId, parentId, authorId, content, now)
        IN ~Acceptable(content) =>
            /\ r.err = CreateContract(postId, authorId, content)
            /\ r.calls = <<>>

-----------------------------------------------------------------------------
(* Claims about delete *)

\* The replies attached under a comment in the thread of its post
ThreadChildren(store, id, sort) ==
    getThread(store, store[id].postId, sort, DefaultLimit, 0).nodes[id].replies

\* C11: a successful delete sets the target's content to '[deleted]' and its
\* deletion flag to true and changes nothing else: every other field of the
\* target, every other stored comment, the set of stored comments, the count
\* of each post and the replies attached under the target in getThread are
\* as before.
C11_DeleteFrame ==
    \A commentId \in IdInputs, agentId \in AgentInputs :
        LET r == delete(comments, idCounter, commentId, agentId)
        IN r.err = "OK" =>
            /\ commentId \in DOMAIN comments
            /\ DOMAIN r.comments = DOMAIN comments
            /\ r.idCounter = idCounter
            /\ \A id \in DOMAIN comments \ {commentId} : r.comments[id] = comments[id]
            /\ r.comments[commentId].content = DeletedMarker
            /\ r.comments[commentId].isDeleted = TRUE
            /\ DOMAIN r.comments[commentId] = DOMAIN comments[commentId] \cup {"isDeleted"}
            /\ \A f \in DOMAIN comments[commentId] \ {"content", "isDeleted"} :
                r.comments[commentId][f] = comments[commentId][f]
            /\ \A postId \in Posts :
                adapterGetCount(r.comments, postId) = adapterGetCount(comments, postId)
            /\ \A sort \in SortPolicies :
                ThreadChildren(r.comments, commentId, sort)
                    = ThreadChildren(comments, commentId, sort)

\* A comment with a reply under it has just been deleted
C11_Witness ==
    /\ last.op = "delete"
    /\ last.err = "OK"
    /\ \E id \in DOMAIN comments :
        /\ IsDeleted(comments[id])
        /\ comments[id].content = DeletedMarker
        /\ \E child \in DOMAIN comments :
            /\ comments[child].parentId = id
            /\ ~IsDeleted(comments[child])

\* C12: delete of an id that is not stored fails with NOT_FOUND and delete
\* by an agent other than the comment's author fails with FORBIDDEN, both
\* leaving every stored comment as it was; a delete that succeeds is by the
\* author, and no step but a successful delete makes a comment deleted.
C12_OnlyAuthorDeletes ==
    /\ [](\A commentId \in IdInputs, agentId \in AgentInputs :
            LET r == delete(comments, idCounter, commentId, agentId)
            IN /\ commentId \notin DOMAIN comments =>
                    r.err = "NOT_FOUND" /\ r.comments = comments
               /\ (commentId \in DOMAIN comments
                        /\ comments[commentId].authorId # agentId) =>
                    r.err = "FORBIDDEN" /\ r.comments = comments
               /\ r.err = "OK" => comments[commentId].authorId = agentId)
    /\ [][\A id \in DOMAIN comments' :
            (IsDeleted(comments'[id])
                    /\ ~(id \in DOMAIN comments /\ IsDeleted(comments[id])))
                => last'.op = "delete" /\ last'.err = "OK"]_vars

\* An agent who is not the author has just been refused, the comment intact
C12_Witness ==
    /\ last.op = "delete"
    /\ last.err = "FORBIDDEN"
    /\ \E id \in DOMAIN comments : ~IsDeleted(comments[id])
    /\ \E id \in DOMAIN comments : IsDeleted(comments[id])

\* C13: a deleted comment stays stored, flagged and with content '[deleted]'
\* over every later create, reply, delete and updateScore; a comment enters
\* the store only by a successful create or reply, and enters not deleted.
C13_DeletedAbsorbing ==
    [][/\ \A id \in DOMAIN comments :
            IsDeleted(comments[id]) =>
                /\ id \in DOMAIN comments'
                /\ IsDeleted(comments'[id])
                /\ comments'[id].content = DeletedMarker
       /\ \A id \in DOMAIN comments' \ DOMAIN comments :
            /\ last'.op \in {"create", "reply"}
            /\ last'.err = "OK"
            /\ last'.ret.id = id
            /\ ~IsDeleted(comments'[id])]_vars

\* A vote has just been cast with a comment deleted and voted on
C13_Witness ==
    /\ last.op = "updateScore"
    /\ \E id \in DOMAIN comments :
        /\ IsDeleted(comments[id])
        /\ comments[id].content = DeletedMarker
        /\ comments[id].score # 0

\* C14: a reply to a deleted comment, under the same post, within maxDepth
\* and with acceptable content, succeeds and is stored with that comment as
\* parent, one level deeper.
C14_ReplyToDeleted ==
    \A postId \in Posts, parentId \in DOMAIN comments, authorId \in Agents,
       content \in ContentInputs, now \in Times :
        (/\ IsDeleted(comments[parentId])
         /\ comments[parentId].postId = postId
         /\ comments[parentId].depth + 1 <= maxDepth
         /\ Acceptable(content)) =>
            LET r == reply(comments, idCounter, postId, parentId, authorId, content, now)
            IN /\ r.err = "OK"
               /\ SavedOne(r)
               /\ r.ret.parentId = parentId
               /\ r.ret.depth = comments[parentId].depth + 1
               /\ r.comments[parentId] = comments[parentId]

\* A reply has just been saved under a deleted comment
C14_Witness ==
    /\ last.op = "reply"
    /\ last.err = "OK"
    /\ last.ret.id \in DOMAIN comments
    /\ IsDeleted(comments[last.ret.parentId])
    /\ last.ret.depth = comments[last.ret.parentId].depth + 1

\* C15: in every state reached by create, reply, delete and updateScore,
\* whatever maxLength is configured, the content of every stored comment is
\* trimmed and between 1 and maxLength characters long.
C15_ContentInvariant ==
    \A id \in DOMAIN comments :
        /\ trim(comments[id].content) = comments[id].content
        /\ Len(comments[id].content) >= 1
        /\ Len(comments[id].content) <= maxLength

-----------------------------------------------------------------------------
(* CommentSystem.js: the queries.  `methods` is the set of the names of    *)
(* the methods the adapter has.                                            *)

\* The working sets of the fallbacks
RepliesWorkingSet == 1000
CountWorkingSet == 10000

\* { sort = 'top' }
DefaultSort(sort) == IF sort = Omitted THEN "top" ELSE sort

\* The fallback of getReplies: filter from the comments of the post
repliesUnsorted(replies, sort) == replies
repliesSorted(replies, sort) == sortComments(replies, sort)

getRepliesFallback(store, counter, commentId, sort, limit) ==
    LET comment == adapterGetComment(store, commentId)
    IN IF comment = NoRecord THEN Thrown("NOT_FOUND", <<"getComment">>, store, counter)
       ELSE LET allComments ==
                    adapterGetComments(store, comment.postId, "top", RepliesWorkingSet, 0)
                replies == OfParent(allComments, commentId)
            IN Outcome("OK", [items |-> Slice(repliesSorted(replies, sort), 0, limit)],
                       <<"getComment", "getComments">>, store, counter)

getReplies(methods, store, counter, commentId, sort, limit) ==
    IF "getReplies" \in methods
    THEN Outcome("OK", [items |-> adapterGetReplies(store, commentId, DefaultSort(sort), limit)],
                 <<"getReplies">>, store, counter)
    ELSE getRepliesFallback(store, counter, commentId, DefaultSort(sort), limit)

\* getComment: the stored comment, or NOT_FOUND
getComment(store, counter, id) ==
    LET comment == adapterGetComment(store, id)
    IN IF comment = NoRecord THEN Thrown("NOT_FOUND", <<"getComment">>, store, counter)
       ELSE Outcome("OK", comment, <<"getComment">>, store, counter)

\* comments.length of the working set
lengthLessOne(cs) == IF Len(cs) = 0 THEN 0 ELSE Len(cs) - 1
length(cs) == Len(cs)

getCount(methods, store, counter, postId) ==
    IF "getCount" \in methods
    THEN Outcome("OK", [count |-> adapterGetCount(store, postId)],
                 <<"getCount">>, store, counter)
    ELSE Outcome("OK",
                 [count |-> length(adapterGetComments(store, postId, "top", CountWorkingSet, 0))],
                 <<"getComments">>, store, counter)

-----------------------------------------------------------------------------
(* ReadSpec: an engine over an in-memory adapter that has every method, or *)
(* one that has neither getReplies nor getCount; comments are created,     *)
(* answered, deleted and voted up by calls that succeed, the clock never   *)
(* running backwards, and the queries are made in between.  `input` is the *)
(* set of the adapter's methods.                                           *)

RequiredMethods == {"getComment", "getComments", "saveComment", "deleteComment"}
OptionalMethods == {"updateScore", "getReplies", "getCount"}

MaxTime == 2       \* the latest reading of the clock
MaxDeleted == 1    \* comments deleted

Limits == {1, DefaultLimit}
ReadSorts == {"top", "new", "old", "controversial", Omitted}

\* new Date(), no earlier than any date taken before
Now(store) == {t \in 1..MaxTime : \A id \in DOMAIN store : store[id].createdAt <= t}

DeletedIn(store) == {id \in DOMAIN store : IsDeleted(store[id])}

ReadInit ==
    /\ EngineIdle
    /\ input \in {RequiredMethods \cup OptionalMethods,
                  RequiredMethods \cup {"updateScore"}}
    /\ output = <<>>
    /\ pc = "engine"

CreateOk ==
    \E postId \in Posts, authorId \in Authors, now \in Now(comments) :
        LET r == create(comments, idCounter, postId, authorId, Str(Longest), now)
        IN /\ r.err = "OK"
           /\ r.idCounter <= MaxComments
           /\ comments' = r.comments
           /\ idCounter' = r.idCounter
           /\ last' = Left("create", r)
           /\ UNCHANGED utilVars

ReplyOk ==
    \E postId \in Posts, parentId \in DOMAIN comments, authorId \in Authors,
       now \in Now(comments) :
        LET r == reply(comments, idCounter, postId, parentId, authorId, Str(Longest), now)
        IN /\ r.err = "OK"
           /\ r.idCounter <= MaxComments
           /\ comments' = r.comments
           /\ idCounter' = r.idCounter
           /\ last' = Left("reply", r)
           /\ UNCHANGED utilVars

DeleteOk ==
    \E commentId \in DOMAIN comments, agentId \in Authors :
        LET r == delete(comments, idCounter, commentId, agentId)
        IN /\ r.err = "OK"
           /\ Cardinality(DeletedIn(r.comments)) <= MaxDeleted
           /\ comments' = r.comments
           /\ idCounter' = r.idCounter
           /\ last' = Left("delete", r)
           /\ UNCHANGED utilVars

Vote ==
    \E commentId \in DOMAIN comments :
        LET r == updateScore(comments, idCounter, commentId, 1)
        IN /\ Standing(r.comments) <= MaxScore
           /\ comments' = r.comments
           /\ idCounter' = r.idCounter
           /\ last' = Left("updateScore", r)
           /\ UNCHANGED utilVars

GetThread ==
    \E postId \in Posts, sort \in ReadSorts, limit \in Limits :
        /\ last' = [op |-> "getThread", err |-> "OK",
                    ret |-> getThread(comments, postId, DefaultSort(sort), limit, 0),
                    calls |-> <<"getComments">>]
        /\ comments' = storeAfterGetThread(comments, postId, DefaultSort(sort), limit, 0)
        /\ UNCHANGED <<idCounter, utilVars>>

GetComment ==
    \E id \in IdInputs \ {NULL} :
        LET r == getComment(comments, idCounter, id)
        IN /\ last' = Left("getComment", r)
           /\ comments' = r.comments
           /\ idCounter' = r.idCounter
           /\ UNCHANGED utilVars

GetReplies ==
    \E commentId \in IdInputs \ {NULL}, sort \in ReadSorts, limit \in Limits :
        LET r == getReplies(input, comments, idCounter, commentId, sort, limit)
        IN /\ last' = Left("getReplies", r)
           /\ comments' = r.comments
           /\ idCounter' = r.idCounter
           /\ UNCHANGED utilVars

GetCount ==
    \E postId \in Posts :
        LET r == getCount(input, comments, idCounter, postId)
        IN /\ last' = Left("getCount", r)
           /\ comments' = r.comments
           /\ idCounter' = r.idCounter
           /\ UNCHANGED utilVars

ReadNext ==
    \/ CreateOk \/ ReplyOk \/ DeleteOk \/ Vote
    \/ GetThread \/ GetComment \/ GetReplies \/ GetCount

ReadSpec == ReadInit /\ [][ReadNext]_vars

-----------------------------------------------------------------------------
(* Claims about the queries *)

\* The ids stored under a post, and the replies stored under a comment
PostIds(postId) == {id \in DOMAIN comments : comments[id].postId = postId}
ReplyIds(commentId) == {id \in DOMAIN comments : comments[id].parentId = commentId}

\* The policy a sort option stands for
PolicyOf(sort) == IF sort \in {"new", "old", "controversial"} THEN sort ELSE "top"

\* The node objects an array of a tree refers to
NodesOf(tree, arr) == [i \in 1..Len(arr) |-> tree.nodes[arr[i]]]

\* C16: when a post holds no more comments than the limit, getThread
\* returns a forest in which each comment of the post, as stored, occurs
\* exactly once (countComments of it is the post's count), every root of the
\* post is a root and every reply is among the replies of its parent, and the
\* roots and every replies array are in the order of the policy asked for.
C16_ThreadOfPost ==
    \A postId \in Posts, sort \in SortPolicies, limit \in (1..MaxComments) \cup Limits :
        Cardinality(PostIds(postId)) <= limit =>
            LET tree == getThread(comments, postId, DefaultSort(sort), limit, 0)
                flat == flattenTree(tree)
            IN /\ countComments(tree) = [threw |-> FALSE, count |-> Cardinality(PostIds(postId))]
               /\ ~flat.threw
               /\ Range(IdsOf(flat.out)) = PostIds(postId)
               /\ \A id \in PostIds(postId) :
                    /\ Occurrences(IdsOf(flat.out), id) = 1
                    /\ WithoutReplies(tree.nodes[id]) = comments[id]
                    /\ IF comments[id].parentId = NULL
                       THEN Occurrences(tree.roots, id) = 1
                       ELSE Occurrences(tree.nodes[comments[id].parentId].replies, id) = 1
                    /\ Sorted(PolicyOf(sort), NodesOf(tree, tree.nodes[id].replies))
               /\ Sorted(PolicyOf(sort), NodesOf(tree, tree.roots))

\* A thread has been returned in which a later reply stands before an
\* earlier one under their parent
C16_Witness ==
    /\ last.op = "getThread"
    /\ Len(last.ret.roots) = 1
    /\ \E id \in DOMAIN last.ret.nodes : last.ret.nodes[id].replies = <<3, 2>>

-----------------------------------------------------------------------------
(* ShuffleSpec: getThread over a storage whose getComments answers with    *)
(* the same records in one order or another.  `input` holds the two        *)
(* answers and the sort option, `output` the forest made of each.          *)

MaxResponse == 3     \* records in an answer

ShuffleKeys == [score : {0, 1}, createdAt : {1, 2}]

\* The i-th record stored: a root, or a reply to a record stored before
ShuffleRecord(i, parentId, k) ==
    [id |-> i, parentId |-> parentId, score |-> k.score, createdAt |-> k.createdAt,
     upvotes |-> 0, downvotes |-> 0]

Orders(n) == {f \in [1..n -> 1..n] : \A i, j \in 1..n : f[i] = f[j] => i = j}

ShuffleInit ==
    /\ EngineIdle
    /\ \E n \in 0..MaxResponse :
        \E parents \in [1..n -> 0..n], ks \in [1..n -> ShuffleKeys],
           order \in Orders(n), sort \in ReadSorts :
            /\ \A i \in 1..n : parents[i] < i
            /\ LET records == [i \in 1..n |-> ShuffleRecord(i, parents[i], ks[i])]
               IN input = [first |-> records,
                           second |-> [i \in 1..n |-> records[order[i]]],
                           sort |-> sort]
    /\ output = <<>>
    /\ pc = "start"

ShuffleStep ==
    /\ pc = "start"
    /\ output' = [first |-> resortAndBuild(input.first, DefaultSort(input.sort)),
                  second |-> resortAndBuild(input.second, DefaultSort(input.sort))]
    /\ pc' = "threaded"
    /\ UNCHANGED <<engineVars, input>>

ShuffleNext == ShuffleStep

ShuffleSpec == ShuffleInit /\ [][ShuffleNext]_vars

\* C17: the forest getThread returns depends on the records storage answers
\* with and on the policy only: of two answers that are permutations of one
\* another it makes equal forests.
C17_OrderIndependent ==
    pc = "threaded" => output.first = output.second

-----------------------------------------------------------------------------
(* Claims about getReplies and getCount, checked under ReadSpec *)

Smaller(a, b) == IF a < b THEN a ELSE b

\* C18: over a storage without getReplies, getReplies fails with NOT_FOUND
\* when the comment is not stored; otherwise it returns stored comments
\* whose parent is that comment, none twice, in the order of the policy, as
\* many as there are in the working set (the first 1000 comments of the
\* post) or `limit` if that is less, none left out standing before one
\* returned.
C18_RepliesFallback ==
    "getReplies" \notin input =>
      \A commentId \in IdInputs \ {NULL}, sort \in SortPolicies,
         limit \in (1..MaxComments) \cup Limits :
        LET r == getReplies(input, comments, idCounter, commentId, sort, limit)
        IN IF commentId \notin DOMAIN comments THEN r.err = "NOT_FOUND"
           ELSE LET items == r.ret.items
                    working == Range(IdsOf(adapterGetComments(comments,
                                    comments[commentId].postId, "top", RepliesWorkingSet, 0)))
                    due == ReplyIds(commentId) \cap working
                IN /\ r.err = "OK"
                   /\ r.comments = comments
                   /\ Len(items) = Smaller(Cardinality(due), limit)
                   /\ \A i \in 1..Len(items) :
                        /\ items[i].id \in due
                        /\ items[i] = comments[items[i].id]
                        /\ items[i].parentId = commentId
                        /\ Occurrences(IdsOf(items), items[i].id) = 1
                        /\ \A id \in due \ Range(IdsOf(items)) :
                            InKeyOrder(PolicyOf(sort), items[i], comments[id])
                   /\ Sorted(PolicyOf(sort), items)

\* The fallback has returned the one of two replies that the policy puts
\* first, and it is not the one stored first
C18_Witness ==
    /\ "getReplies" \notin input
    /\ last.op = "getReplies"
    /\ last.err = "OK"
    /\ last.calls = <<"getComment", "getComments">>
    /\ Len(last.ret.items) = 1
    /\ Cardinality(ReplyIds(last.ret.items[1].parentId)) = 2
    /\ last.ret.items[1].id = 3

\* C19: getCount returns the storage's own count when storage has getCount;
\* otherwise it returns the size of the working set, the smaller of the
\* number of comments stored under the post and the working-set bound, which
\* is the true count whenever that does not exceed the bound; deleted
\* comments are counted either way.
C19_Count ==
    \A postId \in Posts :
        /\ "getCount" \in input =>
            LET r == getCount(input, comments, idCounter, postId)
            IN /\ r.err = "OK"
               /\ r.calls = <<"getCount">>
               /\ r.ret.count = adapterGetCount(comments, postId)
               /\ r.ret.count = Cardinality(PostIds(postId))
        /\ "getCount" \notin input =>
            LET r == getCount(input, comments, idCounter, postId)
            IN /\ r.err = "OK"
               /\ r.calls = <<"getComments">>
               /\ r.ret.count = Smaller(Cardinality(PostIds(postId)), CountWorkingSet)
               /\ Cardinality(PostIds(postId)) <= CountWorkingSet
                    => r.ret.count = Cardinality(PostIds(postId))
        /\ \A bound \in 0..MaxComments :
            Len(adapterGetComments(comments, postId, "top", bound, 0))
                = Smaller(Cardinality(PostIds(postId)), bound)

\* The fallback has counted a post of three comments, one of them deleted
C19_Witness ==
    /\ "getCount" \notin input
    /\ last.op = "getCount"
    /\ last.calls = <<"getComments">>
    /\ last.ret.count = MaxComments
    /\ DeletedIn(comments) # {}

-----------------------------------------------------------------------------
(* ConfigSpec: engines constructed over adapters that have any of the      *)
(* seven methods.  `input` is the set of the adapter's methods; pc is      *)
(* "new" before the constructor has run, "failed" when it threw and        *)
(* "engine" when it returned.                                              *)

\* The code of an error that has none: a plain Error, e.code undefined
NoCode == "<no code>"

\* _validateAdapter: throw new Error(...) for a required method that is missing
validateAdapter(methods) ==
    IF RequiredMethods \subseteq methods THEN "OK" ELSE NoCode

\* updateScore, over any adapter
updateScoreOver(methods, store, counter, commentId, delta) ==
    IF "updateScore" \notin methods THEN Thrown(NoCode, <<>>, store, counter)
    ELSE updateScore(store, counter, commentId, delta)

ConfigInit ==
    /\ EngineIdle
    /\ input \in SUBSET (RequiredMethods \cup OptionalMethods)
    /\ output = <<>>
    /\ pc = "new"

Construct ==
    /\ pc = "new"
    /\ last' = [op |-> "constructor", err |-> validateAdapter(input),
                ret |-> NoRecord, calls |-> <<>>]
    /\ pc' = IF validateAdapter(input) = "OK" THEN "engine" ELSE "failed"
    /\ UNCHANGED <<comments, idCounter, input, output>>

ConfigUpdateScore ==
    /\ pc = "engine"
    /\ \E commentId \in IdInputs, delta \in Deltas :
        LET r == updateScoreOver(input, comments, idCounter, commentId, delta)
        IN /\ comments' = r.comments
           /\ idCounter' = r.idCounter
           /\ last' = Left("updateScore", r)
    /\ UNCHANGED utilVars

ConfigDelete ==
    /\ pc = "engine"
    /\ \E commentId \in IdInputs, agentId \in AgentInputs :
        LET r == delete(comments, idCounter, commentId, agentId)
        IN /\ comments' = r.comments
           /\ idCounter' = r.idCounter
           /\ last' = Left("delete", r)
    /\ UNCHANGED utilVars

ConfigNext == Construct \/ ConfigUpdateScore \/ ConfigDelete

ConfigSpec == ConfigInit /\ [][ConfigNext]_vars

\* C20: every failure carries a code: the constructor fails, with the code
\* of a configuration error, exactly when the adapter lacks one of
\* getComment, getComments, saveComment and deleteComment; updateScore over
\* an adapter without updateScore fails with the code of an unsupported
\* operation; a not-found failure carries NOT_FOUND.
C20_FailuresCarryCodes ==
    /\ last.op = "constructor" =>
        /\ last.err = "OK" <=> RequiredMethods \subseteq input
        /\ last.err # NoCode
    /\ (last.op = "updateScore" /\ "updateScore" \notin input) =>
        last.err \notin {"OK", NoCode}
    /\ last.op = "delete" => last.err = "NOT_FOUND"

-----------------------------------------------------------------------------
(* Claims about updateScore, identifiers and unknown ids *)

\* C21: updateScore on a stored comment, over an adapter that has
\* updateScore, sets the comment's score to its score plus delta, returns
\* that score and changes nothing else: every other field of the comment,
\* every other comment and the set of stored comments are as before.
C21_UpdateScoreFrame ==
    \A commentId \in DOMAIN comments, delta \in Deltas :
        LET r == updateScoreOver(RequiredMethods \cup OptionalMethods,
                                 comments, idCounter, commentId, delta)
        IN /\ r.err = "OK"
           /\ r.ret = [score |-> comments[commentId].score + delta]
           /\ r.comments[commentId].score = comments[commentId].score + delta
           /\ DOMAIN r.comments = DOMAIN comments
           /\ r.idCounter = idCounter
           /\ DOMAIN r.comments[commentId] = DOMAIN comments[commentId]
           /\ \A f \in DOMAIN comments[commentId] \ {"score"} :
                r.comments[commentId][f] = comments[commentId][f]
           /\ \A id \in DOMAIN comments \ {commentId} : r.comments[id] = comments[id]

\* A vote has just taken a comment's score below zero, another comment
\* standing beside it
C21_Witness ==
    /\ last.op = "updateScore"
    /\ last.err = "OK"
    /\ last.ret = [score |-> -1]
    /\ \E id \in DOMAIN comments : comments[id].score = -1
    /\ \E id \in DOMAIN comments : comments[id].score = 0

\* The read operations
ReadOps == {"getComment", "getThread", "getReplies", "getCount"}

NoRepliesStored == \A id \in DOMAIN comments : "replies" \notin DOMAIN comments[id]

\* C25: getComment, getThread, getReplies and getCount leave the store
\* unchanged.  After any of them, successful or failed, the stored comments
\* and every field of every stored record are as before, and no stored record
\* ever has a replies field: the tree getThread assembles is made of copies.
C25_ReadsLeaveStore ==
    /\ []NoRepliesStored
    /\ [][last'.op \in ReadOps => comments' = comments]_vars

\* getThread has answered with a comment that has a reply under it, and the
\* stored comment has none
C25_Witness ==
    /\ last.op = "getThread"
    /\ \E id \in DOMAIN last.ret.nodes :
          /\ last.ret.nodes[id].replies # <<>>
          /\ id \in DOMAIN comments
          /\ "replies" \notin DOMAIN comments[id]

\* C27: fallback equals delegation.  For every stored commentId (its post
\* holding no more comments than the working set), every sort policy and every
\* limit, the fallback getReplies, computed from getComment and getComments,
\* returns the same sequence in the same order as the in-memory adapter's own
\* getReplies.
C27_FallbackEqualsDirect ==
    \A commentId \in DOMAIN comments, sort \in ReadSorts, limit \in Limits :
        adapterGetCount(comments, comments[commentId].postId) <= RepliesWorkingSet =>
            LET fallback == getRepliesFallback(comments, idCounter, commentId,
                                               DefaultSort(sort), limit)
                direct == adapterGetReplies(comments, commentId, DefaultSort(sort), limit)
            IN fallback.err = "OK" /\ fallback.ret.items = direct

-----------------------------------------------------------------------------
(* Claims about identifiers that name no stored comment *)

NotFoundCodes == {"NOT_FOUND", "PARENT_NOT_FOUND"}

\* C23: whenever the comment id passed to getComment, delete, reply (as
\* parentId), getReplies or updateScore names no stored comment, the call
\* fails with NOT_FOUND / PARENT_NOT_FOUND instead of returning a value.
C23_UnknownIdNotFound ==
    \A id \in (IdInputs \ {NULL}) \ DOMAIN comments :
        /\ getComment(comments, idCounter, id).err \in NotFoundCodes
        /\ \A agentId \in Agents :
              delete(comments, idCounter, id, agentId).err \in NotFoundCodes
        /\ \A postId \in Posts, authorId \in Authors, now \in Now(comments) :
              reply(comments, idCounter, postId, id, authorId, Str(Longest), now).err
                  \in NotFoundCodes
        /\ \A sort \in ReadSorts, limit \in Limits :
              getReplies(input, comments, idCounter, id, sort, limit).err \in NotFoundCodes
        /\ \A delta \in Deltas :
              updateScore(comments, idCounter, id, delta).err \in NotFoundCodes

-----------------------------------------------------------------------------
(* ConcSpec: one engine shared by callers whose calls interleave where the *)
(* engine awaits the adapter.  A call that makes one adapter call (create, *)
(* updateScore) is one step; reply and delete are two, the fetch and the   *)
(* rest, and between the two any step of another caller may come.          *)
(* `input` holds, for each caller, the call it has in flight.              *)

Callers == {1, 2}

Idle == [op |-> "idle"]

ConcInit ==
    /\ EngineIdle
    /\ input = [c \in Callers |-> Idle]
    /\ output = <<>>
    /\ pc = "engine"

\* What a call keeps of the comment it fetched: the fields it goes on to
\* read, and whether the comment was deleted then
Seen(comment) ==
    IF comment = NoRecord THEN NoRecord
    ELSE [id |-> comment.id, postId |-> comment.postId, depth |-> comment.depth,
          authorId |-> comment.authorId, wasDeleted |-> IsDeleted(comment)]

\* The code a call ended with, and whether what it had fetched was deleted
LeftSeen(op, r, seen) ==
    [op |-> op, err |-> r.err, wasDeleted |-> seen # NoRecord /\ seen.wasDeleted]

ConcCreate ==
    \E c \in Callers, postId \in Posts, authorId \in Authors, now \in Times :
        LET r == create(comments, idCounter, postId, authorId, Str(Longest), now)
        IN /\ input[c] = Idle
           /\ r.idCounter <= MaxComments
           /\ comments' = r.comments
           /\ idCounter' = r.idCounter
           /\ last' = LeftSeen("create", r, NoRecord)
           /\ UNCHANGED utilVars

ConcUpdateScore ==
    \E c \in Callers, commentId \in DOMAIN comments, delta \in Deltas :
        LET r == updateScore(comments, idCounter, commentId, delta)
        IN /\ input[c] = Idle
           /\ Standing(r.comments) <= MaxScore
           /\ comments' = r.comments
           /\ idCounter' = r.idCounter
           /\ last' = LeftSeen("updateScore", r, NoRecord)
           /\ UNCHANGED utilVars

\* reply up to `await this.adapter.getComment(parentId)`
ReplyFetch ==
    \E c \in Callers, postId \in Posts, parentId \in 1..MaxComments :
        /\ input[c] = Idle
        /\ input' = [input EXCEPT ![c] =
                [op |-> "reply", postId |-> postId, id |-> parentId,
                 seen |-> Seen(adapterGetComment(comments, parentId))]]
        /\ UNCHANGED <<engineVars, output, pc>>

\* reply from there to its end
ReplySave ==
    \E c \in Callers, authorId \in Authors, now \in Times :
        /\ input[c].op = "reply"
        /\ LET r == replyAfterFetch(input[c].seen, comments, idCounter, input[c].postId,
                                    input[c].id, authorId, Str(Longest), now)
           IN /\ r.idCounter <= MaxComments
              /\ comments' = r.comments
              /\ idCounter' = r.idCounter
              /\ last' = LeftSeen("reply", r, input[c].seen)
        /\ input' = [input EXCEPT ![c] = Idle]
        /\ UNCHANGED <<output, pc>>

\* delete up to `await this.adapter.getComment(commentId)`
DeleteFetch ==
    \E c \in Callers, commentId \in 1..MaxComments :
        /\ input[c] = Idle
        /\ input' = [input EXCEPT ![c] =
                [op |-> "delete", id |-> commentId,
                 seen |-> Seen(adapterGetComment(comments, commentId))]]
        /\ UNCHANGED <<engineVars, output, pc>>

\* delete from there to its end
DeleteMark ==
    \E c \in Callers, agentId \in Authors :
        /\ input[c].op = "delete"
        /\ LET r == deleteAfterFetch(input[c].seen, comments, idCounter, input[c].id, agentId)
           IN /\ Cardinality(DeletedIn(r.comments)) <= MaxDeleted
              /\ comments' = r.comments
              /\ idCounter' = r.idCounter
              /\ last' = LeftSeen("delete", r, input[c].seen)
        /\ input' = [input EXCEPT ![c] = Idle]
        /\ UNCHANGED <<output, pc>>

ConcNext ==
    ConcCreate \/ ConcUpdateScore \/ ReplyFetch \/ ReplySave \/ DeleteFetch \/ DeleteMark

ConcSpec == ConcInit /\ [][ConcNext]_vars

\* The rest of the reply a caller has in flight, made now
Resumed(c, authorId, now) ==
    replyAfterFetch(input[c].seen, comments, idCounter, input[c].postId,
                    input[c].id, authorId, Str(Longest), now)

\* C22: every stored comment is stored under its own id and there are as
\* many stored comments as ids were generated; a create or reply that
\* succeeds, however the calls interleave, returns a record whose id no
\* stored comment has, leaving those as they were; the record the engine
\* hands to saveComment has no id.
C22_UniqueIds ==
    /\ \A id \in DOMAIN comments : comments[id].id = id
    /\ Cardinality(DOMAIN comments) = idCounter
    /\ \A postId \in Posts, authorId \in Authors, now \in Times :
        LET r == create(comments, idCounter, postId, authorId, Str(Longest), now)
        IN /\ r.err = "OK" => SavedOne(r)
           /\ "id" \notin DOMAIN NewComment(postId, authorId, Longest, NULL, 0, now)
    /\ \A c \in Callers, authorId \in Authors, now \in Times :
        input[c].op = "reply" =>
            (Resumed(c, authorId, now).err = "OK" => SavedOne(Resumed(c, authorId, now)))

\* A reply has been saved as the third comment while the other caller's
\* reply to the same parent is in flight
C22_Witness ==
    /\ last.op = "reply"
    /\ last.err = "OK"
    /\ idCounter = MaxComments
    /\ \E c \in Callers :
        /\ input[c].op = "reply"
        /\ input[c].id = comments[idCounter].parentId

\* Each reply's parent is stored, under the same post, one level up, and no
\* depth exceeds maxDepth
Structural ==
    \A id \in DOMAIN comments :
        comments[id].parentId # NULL =>
            /\ comments[id].parentId \in DOMAIN comments
            /\ comments[comments[id].parentId].postId = comments[id].postId
            /\ comments[id].depth = comments[comments[id].parentId].depth + 1
            /\ comments[id].depth <= maxDepth

\* C26: with create, reply, delete and updateScore calls of several callers
\* interleaved at the adapter calls, every state keeps each reply's parent
\* stored, under the same post and one level up, within maxDepth; and a
\* reply whose parent was deleted after the reply fetched it is saved all
\* the same, under that parent, the parent staying deleted.
C26_ConcurrentCallers ==
    /\ Structural
    /\ \A c \in Callers, authorId \in Authors, now \in Times :
        (/\ input[c].op = "reply"
         /\ input[c].seen # NoRecord
         /\ ~input[c].seen.wasDeleted
         /\ IsDeleted(comments[input[c].id])
         /\ input[c].seen.postId = input[c].postId
         /\ input[c].seen.depth + 1 <= maxDepth) =>
            LET r == Resumed(c, authorId, now)
            IN /\ r.err = "OK"
               /\ SavedOne(r)
               /\ r.ret.parentId = input[c].id
               /\ r.ret.depth = input[c].seen.depth + 1
               /\ IsDeleted(r.comments[input[c].id])

\* A reply has just been saved under a parent that was deleted after the
\* reply had fetched it
C26_Witness ==
    /\ last.op = "reply"
    /\ last.err = "OK"
    /\ ~last.wasDeleted
    /\ comments[idCounter].parentId # NULL
    /\ IsDeleted(comments[comments[idCounter].parentId])

-----------------------------------------------------------------------------
(* FaultSpec: an engine over an adapter whose calls may be rejected.  Each *)
(* engine call is made with a fault plan: the adapter call of that engine  *)
(* call that is rejected (its position among the calls made, 0 for none)   *)
(* and the failure it is rejected with.  A rejected adapter call leaves    *)
(* the store as it was.  `input` is the set of the adapter's methods,      *)
(* `output` the fault plan of the last call.                               *)

MaxCalls == 2      \* adapter calls one engine call makes
MaxStored == 2     \* comments saved under faults

Failures == {"EIO", "ETIMEDOUT"}

FaultPlans == [failAt : 0..MaxCalls, failure : Failures]

NoFault == [rejected |-> FALSE, failAt |-> 0, failure |-> "none"]

\* Is an adapter call of the run r rejected under the plan?  The calls before
\* it are fetches that were answered, so up to there the run is the run r
IsRejected(r, plan) == plan.failAt \in 1..Len(r.calls)

Planned(r, plan) ==
    IF IsRejected(r, plan)
    THEN [rejected |-> TRUE, failAt |-> plan.failAt, failure |-> plan.failure]
    ELSE NoFault

\* `await` of a rejected adapter call, in a method that would try the call
\* once more
retriedOnce(r, store, counter, plan) ==
    IF IsRejected(r, plan)
    THEN Outcome(r.err, r.ret,
                 SubSeq(r.calls, 1, plan.failAt) \o SubSeq(r.calls, plan.failAt, Len(r.calls)),
                 r.comments, r.idCounter)
    ELSE r

\* `await` of a rejected adapter call: the methods have no try, catch or
\* finally, so the rejection is thrown out of the method there and then
awaitRejected(r, store, counter, plan) ==
    IF IsRejected(r, plan)
    THEN Outcome(plan.failure, NoRecord, SubSeq(r.calls, 1, plan.failAt), store, counter)
    ELSE r

\* The code and the adapter calls a call ended with
LeftCalls(op, r) == [op |-> op, err |-> r.err, calls |-> r.calls]

FaultInit ==
    /\ EngineIdle
    /\ input \in {RequiredMethods \cup OptionalMethods,
                  RequiredMethods \cup {"updateScore"}}
    /\ output = NoFault
    /\ pc = "engine"

FaultyCreate ==
    \E postId \in Posts, authorId \in Authors, now \in Times, plan \in FaultPlans :
        LET ok == create(comments, idCounter, postId, authorId, Str(Longest), now)
            r == awaitRejected(ok, comments, idCounter, plan)
        IN /\ r.idCounter <= MaxStored
           /\ comments' = r.comments
           /\ idCounter' = r.idCounter
           /\ last' = LeftCalls("create", r)
           /\ output' = Planned(ok, plan)
           /\ UNCHANGED <<input, pc>>

FaultyReply ==
    \E postId \in Posts, parentId \in 1..(MaxStored + 1), authorId \in Authors,
       now \in Times, plan \in FaultPlans :
        LET ok == reply(comments, idCounter, postId, parentId, authorId, Str(Longest), now)
            r == awaitRejected(ok, comments, idCounter, plan)
        IN /\ r.idCounter <= MaxStored
           /\ comments' = r.comments
           /\ idCounter' = r.idCounter
           /\ last' = LeftCalls("reply", r)
           /\ output' = Planned(ok, plan)
           /\ UNCHANGED <<input, pc>>

FaultyDelete ==
    \E commentId \in 1..(MaxStored + 1), agentId \in Agents, plan \in FaultPlans :
        LET ok == delete(comments, idCounter, commentId, agentId)
            r == awaitRejected(ok, comments, idCounter, plan)
        IN /\ Cardinality(DeletedIn(r.comments)) <= MaxDeleted
           /\ comments' = r.comments
           /\ idCounter' = r.idCounter
           /\ last' = LeftCalls("delete", r)
           /\ output' = Planned(ok, plan)
           /\ UNCHANGED <<input, pc>>

FaultyUpdateScore ==
    \E commentId \in DOMAIN comments, plan \in FaultPlans :
        LET ok == updateScore(comments, idCounter, commentId, 1)
            r == awaitRejected(ok, comments, idCounter, plan)
        IN /\ Standing(r.comments) <= MaxScore
           /\ comments' = r.comments
           /\ idCounter' = r.idCounter
           /\ last' = LeftCalls("updateScore", r)
           /\ output' = Planned(ok, plan)
           /\ UNCHANGED <<input, pc>>

FaultyGetThread ==
    \E postId \in Posts, plan \in FaultPlans :
        LET ok == Outcome("OK", NoRecord, <<"getComments">>,
                          storeAfterGetThread(comments, postId, "top", DefaultLimit, 0),
                          idCounter)
            r == awaitRejected(ok, comments, idCounter, plan)
        IN /\ comments' = r.comments
           /\ idCounter' = r.idCounter
           /\ last' = LeftCalls("getThread", r)
           /\ output' = Planned(ok, plan)
           /\ UNCHANGED <<input, pc>>

FaultyGetComment ==
    \E id \in 1..(MaxStored + 1), plan \in FaultPlans :
        LET ok == getComment(comments, idCounter, id)
            r == awaitRejected(ok, comments, idCounter, plan)
        IN /\ comments' = r.comments
           /\ idCounter' = r.idCounter
           /\ last' = LeftCalls("getComment", r)
           /\ output' = Planned(ok, plan)
           /\ UNCHANGED <<input, pc>>

FaultyGetReplies ==
    \E commentId \in 1..(MaxStored + 1), plan \in FaultPlans :
        LET ok == getReplies(input, comments, idCounter, commentId, "top", DefaultLimit)
            r == awaitRejected(ok, comments, idCounter, plan)
        IN /\ comments' = r.comments
           /\ idCounter' = r.idCounter
           /\ last' = LeftCalls("getReplies", r)
           /\ output' = Planned(ok, plan)
           /\ UNCHANGED <<input, pc>>

FaultyGetCount ==
    \E postId \in Posts, plan \in FaultPlans :
        LET ok == getCount(input, comments, idCounter, postId)
            r == awaitRejected(ok, comments, idCounter, plan)
        IN /\ comments' = r.comments
           /\ idCounter' = r.idCounter
           /\ last' = LeftCalls("getCount", r)
           /\ output' = Planned(ok, plan)
           /\ UNCHANGED <<input, pc>>

FaultNext ==
    \/ FaultyCreate \/ FaultyReply \/ FaultyDelete \/ FaultyUpdateScore
    \/ FaultyGetThread \/ FaultyGetComment \/ FaultyGetReplies \/ FaultyGetCount

FaultSpec == FaultInit /\ [][FaultNext]_vars

\* C24: storage failures propagate without retry or recovery.  When an
\* adapter call made by an engine call is rejected, the engine call fails with
\* that same failure, the rejected adapter call is the last one it made and it
\* made it once (a rejected saveComment of create or reply is attempted once, a
\* rejected parent fetch of reply is followed by no save); and an engine call
\* fails with a storage failure only when one of its adapter calls was
\* rejected.
C24_FailuresPropagate ==
    /\ output.rejected =>
          /\ last.err = output.failure
          /\ Len(last.calls) = output.failAt
          /\ Occurrences(last.calls, last.calls[output.failAt]) = 1
    /\ last.err \in Failures => output.rejected
    /\ (last.op = "reply" /\ output.rejected /\ output.failAt = 1) =>
          last.calls = <<"getComment">>
    /\ (last.op \in {"create", "reply"} /\ last.err \in Failures
            /\ "saveComment" \in Range(last.calls)) =>
          Occurrences(last.calls, "saveComment") = 1

\* A reply whose parent fetch was answered and whose saveComment was rejected
C24_Witness ==
    /\ last.op = "reply"
    /\ output.rejected
    /\ output.failAt = 2
    /\ last.err = "EIO"
    /\ last.calls = <<"getComment", "saveComment">>

====
